---- MODULE Spec2Model ----
(***************************************************************************)
(* A model of the tiktok_pipeline sources:                                 *)
(*   - embed_pipeline.fetch_creator_items, the backward crawl walker;      *)
(*   - build_dataset.merge_records, the record reconciliation function;    *)
(*   - embed_pipeline.main and pipeline.main, the crawl runs against the    *)
(*     persisted index.json;                                               *)
(*   - build_dataset.main, the build of unified.json and the transcripts;  *)
(*   - build_rag_index.main and answer_api.answer, the build of the vector *)
(*     index and the retrieval over it.                                    *)
(*                                                                         *)
(* Units.  TLC's integers are 32 bits wide and the walker's cursor is a    *)
(* millisecond epoch (about 1.8e12), so every time of the walker is held   *)
(* divided by 3600: createTime in hours instead of seconds, the cursor in  *)
(* units of 3.6 s instead of milliseconds.  The conversion                 *)
(* int(createTime * 1000) keeps its factor, and                            *)
(*      1472706000000 / 3600 = 409085000   (the floor)                     *)
(*      7 * 86400000  / 3600 = 168000      (the 7-day window).             *)
(***************************************************************************)
EXTENDS Integers, Sequences, FiniteSets, TLC

VARIABLES
    \* ---- fetch_creator_items
    wpc,            \* "loop": about to fetch a page; "done": returned; "raised"
    max_videos,     \* the argument max_videos
    seen,           \* the set seen
    items,          \* the list items (the return value once wpc = "done")
    cursor,         \* the cursor
    no_new_pages,   \* the stall counter
    page,           \* the loop variable of `for page in range(1, 200)`
    fetches,        \* history: number of fetch_url calls made by the walker
    offered,        \* history: the non-empty ids on the pages fetched so far
    unfetched,      \* history: the ids on the pages of the feed never requested
    repeated,       \* history: some id was shown more than once by the feed
    endedBy,        \* history: which exit ended the walk
    scen,           \* history: how many pages of the scenario feed were served
    \* ---- merge_records
    mpc, ra, rb, rout,
    \* ---- embed_pipeline.main
    rpc,              \* "idle": no run in progress; "items": in the item loop
    index_json,       \* the file index.json of the profile directory
    videos_jsonl,     \* the file videos.jsonl: the rows last written
    existing_records, \* the dict existing_records, as the list of its values
    todo,             \* the items of the crawl the item loop has yet to take
    records,          \* the list records
    skip_existing,    \* args.skip_existing
    write_subs,       \* args.write_subs
    runs,             \* history: number of runs started
    entry,            \* which entry point runs: "embed" or "pipeline"
    run_items,        \* the list items the crawl of this run returned
    raisedOn,         \* history: ids of this run on which an exception was raised
    issued,           \* history: ids of this run for which an embed fetch, an
                      \* audio extraction or a caption download was issued
    endedRun,         \* history: how the last run ended
    \* ---- build_dataset.main
    dpc,              \* "idle": no build in progress; "loop": in the record loop
    audio_files,      \* the ids whose audio file exists in the profile directory
    transcripts,      \* the ids whose transcripts/<id>.json exists
    unified_json,     \* the file unified.json
    item_files,       \* the files items/<id>.json, as the list of their records
    drecords,         \* the list records of build_dataset.main
    di,               \* the position of `for rec in records` (lines 137-175)
    transcribed,      \* the counter transcribed
    no_transcribe,    \* args.no_transcribe
    ds_skip_existing, \* args.skip_existing of build_dataset
    ds_max,           \* args.max
    builds,           \* history: number of builds started
    \* ---- build_rag_index.main
    ipc,              \* "idle", "embed" (batch loop), "save", "meta"
    batch,            \* args.batch
    irecords,         \* the list records loaded from unified.json (line 70)
    ids, texts, meta, \* the lists ids, texts and meta (lines 73-99)
    vectors,          \* the list vectors
    bi,               \* the loop variable i of `range(0, len(texts), args.batch)`
    embeddings_npy,   \* the file rag/index/embeddings.npy
    metadata_json,    \* the file rag/index/metadata.json
    ibuilds,          \* history: number of index builds started
    raisedIn,         \* history: the provider raised in the current build
    batches,          \* history: batches the provider answered in that build
    endedBuild,       \* history: how the last index build ended
    stale,            \* history: unified.json was rewritten after that build began
    \* ---- answer_api.answer
    a_result,         \* the response of the last rag-mode request
    \* ---- build_dataset.main lines 111-126 and export_rag.main lines 118-120
    opc,              \* "dedup", "sort", "export", "done"; "off": not run
    records_in,       \* the list records_in of build_dataset.main
    by_id,            \* the dict by_id, as the list of its values
    ri,               \* the position of `for rec in records_in`
    sorted_records,   \* the list records after the sort of line 126
    export_records    \* the list records of export_rag.main after its sort

walkVars  == <<wpc, max_videos, seen, items, cursor, no_new_pages, page,
               fetches, offered, unfetched, repeated, endedBy, scen>>
mergeVars == <<mpc, ra, rb, rout>>
runVars   == <<rpc, index_json, videos_jsonl, existing_records, todo, records,
               skip_existing, write_subs, runs, entry, run_items,
               raisedOn, issued, endedRun>>
datasetVars == <<dpc, audio_files, transcripts, unified_json, item_files,
                 drecords, di, transcribed, no_transcribe, ds_skip_existing,
                 ds_max, builds>>
indexVars == <<ipc, batch, irecords, ids, texts, meta, vectors, bi,
               embeddings_npy, metadata_json, ibuilds, raisedIn, batches,
               endedBuild, stale, a_result>>
orderVars == <<opc, records_in, by_id, ri, sorted_records, export_records>>
vars      == <<walkVars, mergeVars, runVars, datasetVars, indexVars,
               orderVars>>

-----------------------------------------------------------------------------
(* Bounds of the model *)

\* ids a feed can show are 1 .. MaxIds
MaxIds == 2
\* largest max_videos tried (0 = unbounded)
MaxCap == 1
\* the page ceiling: `range(1, 200)` gives pages 1 .. 199.  Reaching page 199
\* takes 67 distinct ids, so the model scales the 200 down to a ceiling that
\* MaxIds ids can reach (3 pages per id); every statement about it is made
\* relative to PAGE_CEILING.
PAGE_CEILING == 5

-----------------------------------------------------------------------------
(* Program constants of fetch_creator_items *)

\* `if no_new_pages >= 3`
STALL_LIMIT == 3
\* `cursor -= 7 * 86400000`, in units of 3.6 s
WINDOW == 168000
\* `if cursor < 1472706000000`, in units of 3.6 s
FLOOR == 409085000

\* a missing / None / "" id, for which `not vid` holds
NoId == 0
\* a missing / None / 0 createTime, for which `if last:` fails
NoTime == 0

\* the creation time (hours) whose cursor is exactly the floor
FloorHour == FLOOR \div 1000
\* creation times a feed can report: absent, 100 (far below the floor) and one
\* less than a window above the floor
THigh == FloorHour + 100
CreateTimes == {NoTime, 100, THigh}

\* `cursor = int(time.time() * 1e3)`: the time the walk starts
NOW == FLOOR + 500 * WINDOW

Ids == 1 .. MaxIds
Items == [id : Ids \cup {NoId}, createTime : CreateTimes]

\* every itemList a page fetch can return: the empty page, and the pages of
\* one or two items
Pages == {<<>>} \cup {<<a>> : a \in Items} \cup {<<a, b>> : a, b \in Items}

\* int(last * 1000)
CursorOf(createTime) == createTime * 1000

-----------------------------------------------------------------------------
(* fetch_creator_items *)

\* (variant: the cap is tested with > instead of >=)
CapReachedLate(cap, n) == cap # 0 /\ n > cap

\* `if max_videos and len(items) >= max_videos`
CapReached(cap, n) == cap # 0 /\ n >= cap

\* (variant: the test `vid in seen` is left out)
SkippedNoSeen(vid, s) == vid = NoId

\* `if not vid or vid in seen: continue`
Skipped(vid, s) == vid = NoId \/ vid \in s

\* the loop `for it in lst` from index i on; st.ret is TRUE when the loop
\* left by `return items`
RECURSIVE ConsumePage(_, _, _, _)
ConsumePage(lst, i, cap, st) ==
    IF i > Len(lst) THEN st
    ELSE LET it == lst[i] IN
         IF Skipped(it.id, st.seen) THEN ConsumePage(lst, i + 1, cap, st)
         ELSE LET nst == [seen  |-> st.seen \cup {it.id},
                          items |-> Append(st.items, it),
                          added |-> st.added + 1,
                          ret   |-> CapReached(cap, Len(st.items) + 1)]
              IN IF nst.ret THEN nst ELSE ConsumePage(lst, i + 1, cap, nst)

\* the cursor after a non-empty page
NextCursor(lst, cur) ==
    LET last == lst[Len(lst)].createTime IN
    IF last # NoTime
    THEN IF CursorOf(last) = cur THEN cur - WINDOW ELSE CursorOf(last)
    ELSE cur - WINDOW

\* the stall counter after a non-empty page that was consumed to its end
NextStall(added, nnp) == IF added = 0 THEN nnp + 1 ELSE 0

\* (variant: the stall test is > instead of >=)
StalledLate(nnp) == nnp > STALL_LIMIT

\* `if no_new_pages >= 3: break`
Stalled(nnp) == nnp >= STALL_LIMIT

\* `if cursor < 1472706000000: break`
BelowFloor(cur) == cur < FLOOR

\* (variant: the range includes its upper end)
HasNextPageInclusive(p) == p + 1 <= PAGE_CEILING

\* `for page in range(1, 200)`: is there a next iteration after page p
HasNextPage(p) == p + 1 < PAGE_CEILING

\* the ids on a page for which `not vid` fails
PageIds(lst) == {lst[i].id : i \in 1 .. Len(lst)} \ {NoId}

\* an id of the page was on an earlier page, or is twice on this one
Repeats(lst, off) ==
    \E i \in 1 .. Len(lst) :
        /\ lst[i].id # NoId
        /\ (lst[i].id \in off \/ \E j \in 1 .. i - 1 : lst[j].id = lst[i].id)

\* the scenario feed [{id:1,t:100}], [], [], [], ... with creation time t
ScenarioPage(k, t) ==
    IF k = 1 THEN <<[id |-> 1, createTime |-> t]>> ELSE <<>>

\* the monitor of the scenario feed: n pages served so far were exactly the
\* scenario's first n pages with creation time t (n = -1: some other feed)
ScenNext(sc, lst) ==
    IF sc.n = 0
    THEN IF Len(lst) = 1 /\ lst = ScenarioPage(1, lst[1].createTime)
         THEN [t |-> lst[1].createTime, n |-> 1]
         ELSE [t |-> NoTime, n |-> -1]
    ELSE IF sc.n > 0 /\ lst = ScenarioPage(sc.n + 1, sc.t)
         THEN [t |-> sc.t, n |-> sc.n + 1]
         ELSE [t |-> NoTime, n |-> -1]

\* One iteration of the page loop: the fetch of a page that returns itemList
\* lst, and everything done with it up to the next fetch or the return.
\* res is the walker's state after the iteration.
PageStep(lst, st) ==
    IF lst = <<>>
    THEN \* empty page
         LET nnp == st.no_new_pages + 1 IN
         IF Stalled(nnp)
         THEN [st EXCEPT !.no_new_pages = nnp, !.wpc = "done", !.endedBy = "stall"]
         ELSE IF HasNextPage(st.page)
         THEN [st EXCEPT !.no_new_pages = nnp, !.cursor = st.cursor - WINDOW,
                         !.page = st.page + 1]
         ELSE [st EXCEPT !.no_new_pages = nnp, !.cursor = st.cursor - WINDOW,
                         !.wpc = "done", !.endedBy = "ceiling"]
    ELSE LET c == ConsumePage(lst, 1, st.max_videos,
                              [seen |-> st.seen, items |-> st.items,
                               added |-> 0, ret |-> FALSE])
         IN
         IF c.ret
         THEN \* `return items` in the middle of the page
              [st EXCEPT !.seen = c.seen, !.items = c.items,
                         !.wpc = "done", !.endedBy = "cap"]
         ELSE LET cur == NextCursor(lst, st.cursor)
                  nnp == NextStall(c.added, st.no_new_pages)
                  nst == [st EXCEPT !.seen = c.seen, !.items = c.items,
                                    !.cursor = cur, !.no_new_pages = nnp]
              IN
              IF Stalled(nnp)
              THEN [nst EXCEPT !.wpc = "done", !.endedBy = "stall"]
              ELSE IF BelowFloor(cur)
              THEN [nst EXCEPT !.wpc = "done", !.endedBy = "floor"]
              ELSE IF HasNextPage(st.page)
              THEN [nst EXCEPT !.page = st.page + 1]
              ELSE [nst EXCEPT !.wpc = "done", !.endedBy = "ceiling"]

WalkerState ==
    [wpc |-> wpc, max_videos |-> max_videos, seen |-> seen, items |-> items,
     cursor |-> cursor, no_new_pages |-> no_new_pages, page |-> page,
     endedBy |-> endedBy]

\* fetch_url returns a page and the loop body runs on it
FetchPage(lst) ==
    /\ wpc = "loop"
    /\ LET res == PageStep(lst, WalkerState) IN
       /\ wpc' = res.wpc
       /\ seen' = res.seen
       /\ items' = res.items
       /\ cursor' = res.cursor
       /\ no_new_pages' = res.no_new_pages
       /\ page' = res.page
       /\ endedBy' = res.endedBy
       \* the pages of the feed that the walker never asks for
       /\ unfetched' \in IF res.wpc = "done" THEN SUBSET Ids ELSE {{}}
    /\ fetches' = fetches + 1
    /\ offered' = offered \cup PageIds(lst)
    /\ repeated' = (repeated \/ Repeats(lst, offered))
    /\ scen' = ScenNext(scen, lst)
    /\ UNCHANGED <<max_videos, mergeVars, runVars, datasetVars, indexVars, orderVars>>

\* (variant: the failed fetch is absorbed and the loop asks again)
AfterFetchRaiseRetry == "loop"

\* where the walker is after fetch_url (or json.loads) raised at lines 146-147:
\* nothing catches the exception, the call is left without a return value
AfterFetchRaise == "raised"

\* fetch_url (or json.loads) raises: the exception leaves the walker
FetchRaises ==
    /\ wpc = "loop"
    /\ wpc' = AfterFetchRaise
    /\ endedBy' = "raise"
    /\ fetches' = fetches + 1
    /\ UNCHANGED <<max_videos, seen, items, cursor, no_new_pages, page,
                   offered, unfetched, repeated, scen, mergeVars, runVars,
                   datasetVars, indexVars, orderVars>>

\* The walker only tests ids for equality, so feeds that differ by a renaming
\* of the ids drive it alike: the page source names the ids in the order in
\* which it first shows them (the first new id is 1, the next 2, ...).
FirstSightingsInOrder(lst, off) ==
    \A i \in 1 .. Len(lst) :
        LET known == off \cup (PageIds(SubSeq(lst, 1, i - 1))) IN
        lst[i].id = NoId \/ lst[i].id \in known
            \/ lst[i].id = Cardinality(known) + 1

Fetch ==
    \E lst \in Pages : FirstSightingsInOrder(lst, offered) /\ FetchPage(lst)

WalkInit ==
    /\ wpc = "loop"
    /\ max_videos \in 0 .. MaxCap
    /\ seen = {}
    /\ items = <<>>
    /\ cursor = NOW
    /\ no_new_pages = 0
    /\ page = 1
    /\ fetches = 0
    /\ offered = {}
    /\ unfetched = {}
    /\ repeated = FALSE
    /\ endedBy = "none"
    /\ scen = [t |-> NoTime, n |-> 0]

-----------------------------------------------------------------------------
(* merge_records *)

\* Values of a record's fields.  A value is a tagged record, so that values of
\* different Python types compare unequal instead of failing to compare:
\*   "absent" the key is not in the dict      "none" None
\*   "str"    a string (str = "" is "")       "dict" {}
\*   "list"   a list of caption dicts (caps = <<>> is [])
Absent     == [tag |-> "absent", str |-> "", caps |-> <<>>]
None       == [tag |-> "none",   str |-> "", caps |-> <<>>]
EmptyDict  == [tag |-> "dict",   str |-> "", caps |-> <<>>]
Str(s)     == [tag |-> "str",    str |-> s,  caps |-> <<>>]
List(l)    == [tag |-> "list",   str |-> "", caps |-> l]

\* `out[k] in (None, "", [], {})`
IsEmpty(v) == v \in {None, Str(""), List(<<>>), EmptyDict}

\* a field that is in the dict and holds none of None, "", [], {}
Populated(v) == v # Absent /\ ~IsEmpty(v)

Fields == {"id", "audio_path", "title", "captions"}

\* longest captions list of an input record
MaxCaps == 2

\* caption dicts; lang = "" and path = "" stand for a missing (or None) entry
Caption(l, p, t) == [lang |-> l, path |-> p, text |-> t]
Caps == {Caption("en", "1.en.vtt", ""), Caption("en", "1.en.vtt", "hi"),
         Caption("de", "1.de.vtt", "hi"), Caption("", "1.vtt", "hi"),
         Caption("", "", "hi")}
CapLists == UNION {[1 .. n -> Caps] : n \in 0 .. MaxCaps}

\* `c.get("lang") or c.get("path")`; "" is a key for which `if key` fails
KeyOf(c) == IF c.lang # "" THEN c.lang ELSE c.path

\* by_lang[key] = c on the ordered dict by_lang, held as the list of its values
\* (a key keeps the position of its first insertion and takes the last value)
DictPut(d, c) ==
    IF \E i \in 1 .. Len(d) : KeyOf(d[i]) = KeyOf(c)
    THEN [i \in 1 .. Len(d) |-> IF KeyOf(d[i]) = KeyOf(c) THEN c ELSE d[i]]
    ELSE Append(d, c)

\* `{c.get("lang") or c.get("path"): c for c in existing if isinstance(c, dict)}`
RECURSIVE ByLang(_, _, _)
ByLang(existing, i, d) ==
    IF i > Len(existing) THEN d
    ELSE ByLang(existing, i + 1, DictPut(d, existing[i]))

\* `if key and key not in by_lang: by_lang[key] = c`
AddsCaption(c, d) ==
    KeyOf(c) # "" /\ ~(\E i \in 1 .. Len(d) : KeyOf(d[i]) = KeyOf(c))

\* `for c in v: ...` from index i on
RECURSIVE UnionCaptions(_, _, _)
UnionCaptions(v, i, d) ==
    IF i > Len(v) THEN d
    ELSE UnionCaptions(v, i + 1,
                       IF AddsCaption(v[i], d) THEN Append(d, v[i]) ELSE d)

\* the elements of out["captions"] that are dicts: a non-list value that got
\* here is a non-empty string, whose elements are characters
ExistingCaptions(v) == IF v.tag = "list" THEN v.caps ELSE <<>>

\* (variant: a non-None value of b is stored whatever out[k] holds)
MergeFieldOverwrite(k, ov, v) ==
    IF v = Absent \/ v = None THEN ov ELSE v

\* (variant: captions are merged like any other field, without the union)
MergeFieldNoUnion(k, ov, v) ==
    IF v = Absent \/ v = None THEN ov
    ELSE IF ov = Absent \/ IsEmpty(ov) THEN v
    ELSE ov

\* (variant: a populated out[k] is replaced by a populated value of b)
MergeFieldPreferB(k, ov, v) ==
    IF v = Absent \/ v = None THEN ov
    ELSE IF ov = Absent \/ IsEmpty(ov) \/ (k # "captions" /\ ~IsEmpty(v)) THEN v
    ELSE IF k = "captions" /\ v.tag = "list"
    THEN List(UnionCaptions(v.caps, 1, ByLang(ExistingCaptions(ov), 1, <<>>)))
    ELSE ov

\* the loop body of merge_records for key k: ov is out[k] (Absent when k is not
\* in out), v is b[k] (Absent when b has no k, and the body does not run)
MergeField(k, ov, v) ==
    IF v = Absent \/ v = None THEN ov
    ELSE IF ov = Absent \/ IsEmpty(ov) THEN v
    ELSE IF k = "captions" /\ v.tag = "list"
    THEN List(UnionCaptions(v.caps, 1, ByLang(ExistingCaptions(ov), 1, <<>>)))
    ELSE ov

\* merge_records(a, b); each key of b touches only out[key].  a and b are
\* held over the same keys, a missing key as Absent.
merge_records(a, b) == [k \in DOMAIN a |-> MergeField(k, a[k], b[k])]

\* Input records: all of one id; either the plain fields vary and there are no
\* captions, or the captions vary and the plain fields are absent
PlainRecords ==
    {[k \in Fields |-> CASE k = "id" -> Str("1")
                         [] k = "audio_path" -> ap
                         [] k = "title" -> ti
                         [] OTHER -> Absent] :
        ap \in {Absent, None, Str("a.mp3")},
        ti \in {Absent, None, Str(""), List(<<>>), EmptyDict,
                Str("New Title"), Str("Old Title")}}
CaptionRecords ==
    {[k \in Fields |-> CASE k = "id" -> Str("1")
                         [] k = "captions" -> cp
                         [] OTHER -> Absent] :
        cp \in {Absent, None} \cup {List(l) : l \in CapLists}}
MergeInputs == PlainRecords \cup CaptionRecords

MergeInit ==
    /\ mpc = "start"
    /\ ra \in MergeInputs
    /\ rb \in MergeInputs
    /\ rout = ra

\* out = merge_records(a, b)
Merge ==
    /\ mpc = "start"
    /\ rout' = merge_records(ra, rb)
    /\ mpc' = "merged"
    /\ UNCHANGED <<ra, rb, walkVars, runVars, datasetVars, indexVars, orderVars>>

\* the same secondary record is merged into the result once more
MergeAgain ==
    /\ mpc = "merged"
    /\ rout' = merge_records(rout, rb)
    /\ mpc' = "again"
    /\ UNCHANGED <<ra, rb, walkVars, runVars, datasetVars, indexVars, orderVars>>

MergeIdle ==
    /\ mpc = "off"
    /\ ra = [k \in Fields |-> Absent]
    /\ rb = [k \in Fields |-> Absent]
    /\ rout = [k \in Fields |-> Absent]

-----------------------------------------------------------------------------
(* embed_pipeline.main: runs of the crawl on one profile directory *)

\* number of runs of main the model follows
MaxRuns == 2

\* (variant: an exception of the try block is swallowed without a diagnostic)
HasErrorNoExc(audio) == audio = "error"

\* record["error"] is set: line 332 or 334 (no URL, no embed data) or line 336
\* (fetch_embed_data or extract_audio_from_video_url raised)
HasError(audio) == audio # "ok"

\* The record main builds for item vid in run r.  audio_path is TRUE when the
\* key is set (the audio was extracted), error when record["error"] is set;
\* captions and captions_error likewise; extracted_at is the run's time.
NewRecord(vid, audio, subs, r) ==
    [id |-> vid,
     audio_path |-> audio = "ok",
     error |-> HasError(audio),
     captions |-> subs = "ok",
     captions_error |-> subs = "raise",
     extracted_at |-> r]

\* what the try block of lines 301-336 can do: extract the audio ("ok"), set
\* record["error"] for want of embed data or of a URL ("error"), or catch an
\* exception of the embed fetch or of the audio extraction ("raise")
AudioOutcomes == {"ok", "error", "raise"}

\* what the captions block can do: it is not run without --write-subs; with it
\* there are no subtitles, or captions are stored, or an exception of the
\* caption download is caught
SubsOutcomes(ws) == IF ws THEN {"none", "ok", "raise"} ELSE {"off"}

\* what fetch_creator_items returns to main: items with distinct non-empty ids
CrawlResults ==
    {s \in UNION {[1 .. n -> Ids] : n \in 0 .. MaxIds} :
        \A i, j \in 1 .. Len(s) : s[i] = s[j] => i = j}

\* main only tests ids for equality, so crawls that differ by a renaming of
\* the ids the store does not hold drive it alike: the ids of a crawl that are
\* new to the store are the smallest ids the store does not hold, in
\* increasing order
NewIdsInOrder(s, stored) ==
    \A i \in 1 .. Len(s) :
        s[i] \notin stored =>
            \A x \in Ids \ stored :
                x < s[i] => \E j \in 1 .. i - 1 : s[j] = x

\* the file index.json: missing, the document write_json wrote (lines
\* 374-382), or a document json.loads cannot parse
NoFile == [state |-> "missing", count |-> 0, records |-> <<>>]
Malformed == [state |-> "malformed", count |-> 0, records |-> <<>>]
\* `"count": len(records)` and `"records": records`
StoreFile(recs) == [state |-> "ok", count |-> Len(recs), records |-> recs]
\* the ids of the records a file holds
StoredIds(file) == {file.records[i].id : i \in 1 .. Len(file.records)}

\* `vid in existing_records`
HasId(recs, vid) == \E i \in 1 .. Len(recs) : recs[i].id = vid

\* `existing_records[vid]`
Lookup(recs, vid) == recs[CHOOSE i \in 1 .. Len(recs) : recs[i].id = vid]

\* `existing_records[r["id"]] = r` on the dict held as the list of its values
PutRecord(d, r) ==
    IF HasId(d, r.id)
    THEN [i \in 1 .. Len(d) |-> IF d[i].id = r.id THEN r ELSE d[i]]
    ELSE Append(d, r)

\* lines 261-270: the records of index.json by id; {} when the file is missing
\* or cannot be parsed
RECURSIVE LoadRecords(_, _, _)
LoadRecords(recs, i, d) ==
    IF i > Len(recs) THEN d
    ELSE LoadRecords(recs, i + 1, PutRecord(d, recs[i]))

LoadExisting(file) ==
    IF file.state = "ok" THEN LoadRecords(file.records, 1, <<>>) ELSE <<>>

\* (variant: every item that has a stored record is skipped)
SkipItemAnyStored(skip, existing, vid) == skip /\ HasId(existing, vid)

\* `args.skip_existing and vid in existing_records and
\*  existing_records[vid].get("audio_path")`
SkipItem(skip, existing, vid) ==
    skip /\ HasId(existing, vid) /\ Lookup(existing, vid).audio_path

\* (variant: every previous record is appended, returned by this run or not)
AppendMissingAll(recs, existing, i) == recs \o existing

\* lines 368-372: the previous records that this run did not return
RECURSIVE AppendMissing(_, _, _)
AppendMissing(recs, existing, i) ==
    IF i > Len(existing) THEN recs
    ELSE AppendMissing(IF HasId(recs, existing[i].id) THEN recs
                       ELSE Append(recs, existing[i]),
                       existing, i + 1)

\* no run has been started; index.json is the given file
RunInitOn(file) ==
    /\ rpc = "idle"
    /\ index_json = file
    /\ videos_jsonl = <<>>
    /\ existing_records = <<>>
    /\ todo = <<>>
    /\ records = <<>>
    /\ skip_existing = FALSE
    /\ write_subs = FALSE
    /\ runs = 0
    /\ entry = "none"
    /\ run_items = <<>>
    /\ raisedOn = {}
    /\ issued = {}
    /\ endedRun = "none"

RunInit == RunInitOn(NoFile)

\* main up to the item loop: the arguments, the crawl and the load of index.json
StartRun ==
    /\ rpc = "idle"
    /\ runs < MaxRuns
    /\ runs' = runs + 1
    /\ entry' = "embed"
    /\ skip_existing' \in BOOLEAN
    /\ write_subs' \in BOOLEAN
    /\ \E crawl \in CrawlResults :
          /\ NewIdsInOrder(crawl, StoredIds(index_json))
          /\ run_items' = crawl
          /\ todo' = crawl
    /\ existing_records' = LoadExisting(index_json)
    /\ records' = <<>>
    /\ raisedOn' = {}
    /\ issued' = {}
    /\ rpc' = "items"
    /\ UNCHANGED <<index_json, videos_jsonl, endedRun, walkVars, mergeVars,
                   datasetVars, indexVars, orderVars>>

\* (variant: index.json is opened for writing before the crawl, and the run
\* that fails leaves it truncated)
CrawlFailsAfterOpen ==
    /\ rpc = "idle"
    /\ runs < MaxRuns
    /\ runs' = runs + 1
    /\ endedRun' = "crawl_failed"
    /\ index_json' = Malformed
    /\ UNCHANGED <<rpc, videos_jsonl, existing_records, todo, records,
                   skip_existing, write_subs, entry, run_items, raisedOn,
                   issued, walkVars, mergeVars, datasetVars, indexVars,
                   orderVars>>

\* fetch_sec_uid or fetch_creator_items raises (or no secUid is found): main
\* ends before it reads or writes anything
CrawlFails ==
    /\ rpc = "idle"
    /\ runs < MaxRuns
    /\ runs' = runs + 1
    /\ endedRun' = "crawl_failed"
    /\ UNCHANGED <<rpc, index_json, videos_jsonl, existing_records, todo,
                   records, skip_existing, write_subs, entry, run_items,
                   raisedOn, issued, walkVars, mergeVars, datasetVars,
                   indexVars, orderVars>>

\* one iteration of `for i, it in enumerate(items, start=1)`
ProcessItem ==
    /\ rpc = "items"
    /\ entry = "embed"
    /\ todo # <<>>
    /\ LET vid == Head(todo) IN
       IF SkipItem(skip_existing, existing_records, vid)
       THEN /\ records' = Append(records, Lookup(existing_records, vid))
            /\ UNCHANGED <<raisedOn, issued>>
       ELSE \E audio \in AudioOutcomes, subs \in SubsOutcomes(write_subs) :
               /\ records' = Append(records, NewRecord(vid, audio, subs, runs))
               /\ raisedOn' = IF audio = "raise" \/ subs = "raise"
                              THEN raisedOn \cup {vid} ELSE raisedOn
               \* fetch_embed_data(vid) of line 302 is called first
               /\ issued' = issued \cup {vid}
    /\ todo' = Tail(todo)
    /\ UNCHANGED <<rpc, index_json, videos_jsonl, existing_records,
                   skip_existing, write_subs, runs, entry, run_items,
                   endedRun, walkVars, mergeVars, datasetVars, indexVars,
                   orderVars>>

\* main returns or is stopped: its arguments and locals are gone
RunOver ==
    /\ rpc' = "idle"
    /\ entry' = "none"
    /\ existing_records' = <<>>
    /\ todo' = <<>>
    /\ records' = <<>>
    /\ run_items' = <<>>
    /\ raisedOn' = {}
    /\ issued' = {}
    /\ skip_existing' = FALSE
    /\ write_subs' = FALSE

\* lines 368-383: the missing previous records are appended, both files are
\* written and main returns
WriteIndex ==
    /\ rpc = "items"
    /\ entry = "embed"
    /\ todo = <<>>
    /\ LET out == AppendMissing(records, existing_records, 1) IN
       /\ index_json' = StoreFile(out)
       /\ videos_jsonl' = out
    /\ RunOver
    /\ endedRun' = "written"
    /\ UNCHANGED <<runs, walkVars, mergeVars, datasetVars, indexVars, orderVars>>

\* write_json opens index.json with "w" and dumps into it: a run that is
\* stopped in the middle of the dump (killed, disk full) leaves a truncated
\* document behind, and videos.jsonl as it was
WriteInterrupted ==
    /\ rpc = "items"
    /\ todo = <<>>
    /\ index_json' = Malformed
    /\ RunOver
    /\ endedRun' = "killed"
    /\ UNCHANGED <<videos_jsonl, runs, walkVars, mergeVars, datasetVars,
                   indexVars, orderVars>>

-----------------------------------------------------------------------------
(* pipeline.main: the yt-dlp entry point, run on the same profile directory *)

\* pipeline.main up to the video loop (lines 285-328): list_profile_videos and
\* the load of index.json
StartPipelineRun ==
    /\ rpc = "idle"
    /\ runs < MaxRuns
    /\ runs' = runs + 1
    /\ entry' = "pipeline"
    /\ skip_existing' \in BOOLEAN
    /\ write_subs' \in BOOLEAN
    /\ \E videos \in CrawlResults :
          /\ NewIdsInOrder(videos, StoredIds(index_json))
          /\ run_items' = videos
          /\ todo' = videos
    /\ existing_records' = LoadExisting(index_json)
    /\ records' = <<>>
    /\ raisedOn' = {}
    /\ issued' = {}
    /\ rpc' = "items"
    /\ UNCHANGED <<index_json, videos_jsonl, endedRun, walkVars, mergeVars,
                   datasetVars, indexVars, orderVars>>

\* one iteration of `for i, vid in enumerate(videos, start=1)` (lines 332-390):
\* extract_video catches its exceptions and reports them in info["error"];
\* the audio and caption files are looked up in the audio directory
ProcessVideo ==
    /\ rpc = "items"
    /\ entry = "pipeline"
    /\ todo # <<>>
    /\ LET vid == Head(todo) IN
       IF SkipItem(skip_existing, existing_records, vid)
       THEN /\ records' = Append(records, Lookup(existing_records, vid))
            /\ UNCHANGED issued
       ELSE \E audio \in {"ok", "error"}, subs \in {"none", "ok"} :
               /\ records' = Append(records, NewRecord(vid, audio, subs, runs))
               \* extract_video(url, ...) of line 341
               /\ issued' = issued \cup {vid}
    /\ todo' = Tail(todo)
    /\ UNCHANGED <<rpc, index_json, videos_jsonl, existing_records,
                   skip_existing, write_subs, runs, entry, run_items,
                   raisedOn, endedRun, walkVars, mergeVars, datasetVars,
                   indexVars, orderVars>>

\* lines 395-406: both files are written from the records of this run alone
WritePipelineIndex ==
    /\ rpc = "items"
    /\ entry = "pipeline"
    /\ todo = <<>>
    /\ index_json' = StoreFile(records)
    /\ videos_jsonl' = records
    /\ RunOver
    /\ endedRun' = "written"
    /\ UNCHANGED <<runs, walkVars, mergeVars, datasetVars, indexVars, orderVars>>

-----------------------------------------------------------------------------
(* build_dataset.main: builds of unified.json on one profile directory *)

\* number of builds the model follows
MaxBuilds == 2
\* largest --max tried (0 = no limit)
MaxTranscribe == 1

\* a record of index.json as build_dataset holds it: the keys transcript and
\* transcript_error are not set yet
DatasetRecord(r) ==
    [id |-> r.id, audio_path |-> r.audio_path, error |-> r.error,
     captions |-> r.captions, captions_error |-> r.captions_error,
     extracted_at |-> r.extracted_at,
     transcript |-> FALSE, transcript_error |-> FALSE]

\* merge_records on two records of this shape, where a field is TRUE when the
\* key holds a populated value: a populated field of a is kept, and a field
\* that a lacks is taken from b
MergeStored(a, b) ==
    [id |-> a.id,
     audio_path |-> a.audio_path \/ b.audio_path,
     error |-> a.error \/ b.error,
     captions |-> a.captions \/ b.captions,
     captions_error |-> a.captions_error \/ b.captions_error,
     extracted_at |-> a.extracted_at,
     transcript |-> a.transcript \/ b.transcript,
     transcript_error |-> a.transcript_error \/ b.transcript_error]

\* lines 115-125: by_id, held as the list of its values
RECURSIVE DedupById(_, _, _)
DedupById(recs, i, d) ==
    IF i > Len(recs) THEN d
    ELSE LET rec == DatasetRecord(recs[i]) IN
         DedupById(recs, i + 1,
                   IF rec.id = NoId THEN d
                   ELSE IF HasId(d, rec.id)
                   THEN PutRecord(d, MergeStored(Lookup(d, rec.id), rec))
                   ELSE Append(d, rec))

\* what transcribe_audio and write_json of lines 164-172 can do
TranscribeOutcomes == {"ok", "raise"}

\* One iteration of the loop of lines 137-175 on record rec.  The result holds
\* the record as the iteration leaves it, the transcript files, the counter,
\* and brk = TRUE when the iteration left the loop by `break`.
TranscribeRecord(rec, files, audio, n, notr, skip, max, outcome) ==
    LET same == [rec |-> rec, transcripts |-> files, transcribed |-> n,
                 brk |-> FALSE] IN
    IF ~rec.audio_path THEN same
    ELSE IF rec.id \notin audio
    THEN [same EXCEPT !.rec.error = TRUE]
    ELSE IF rec.id \in files /\ skip
    THEN [same EXCEPT !.rec.transcript = TRUE]
    ELSE IF notr THEN same
    ELSE IF max # 0 /\ n >= max THEN [same EXCEPT !.brk = TRUE]
    ELSE IF outcome = "ok"
    THEN [rec |-> [rec EXCEPT !.transcript = TRUE],
          transcripts |-> files \cup {rec.id},
          transcribed |-> n + 1, brk |-> FALSE]
    ELSE [same EXCEPT !.rec.transcript_error = TRUE]

\* lines 178-182: items/<id>.json is written for every record
RECURSIVE WriteItems(_, _, _)
WriteItems(files, recs, i) ==
    IF i > Len(recs) THEN files
    ELSE WriteItems(PutRecord(files, recs[i]), recs, i + 1)

\* the stores a crawl run can have written: up to MaxIds records, each with or
\* without an audio_path
DatasetStores ==
    {StoreFile(l) :
        l \in UNION {[1 .. n -> {NewRecord(vid, audio, "off", 1) :
                                    vid \in Ids, audio \in {"ok", "error"}}] :
                     n \in 1 .. MaxIds}}

DatasetIdle ==
    /\ dpc = "idle"
    /\ audio_files = {}
    /\ transcripts = {}
    /\ unified_json = NoFile
    /\ item_files = <<>>
    /\ drecords = <<>>
    /\ di = 1
    /\ transcribed = 0
    /\ no_transcribe = FALSE
    /\ ds_skip_existing = FALSE
    /\ ds_max = 0
    /\ builds = 0

\* the profile directory before the first build: the audio files the crawl
\* extracted, no transcript and no unified.json
DatasetInit ==
    /\ dpc = "idle"
    /\ audio_files \in SUBSET Ids
    /\ transcripts = {}
    /\ unified_json = NoFile
    /\ item_files = <<>>
    /\ drecords = <<>>
    /\ di = 1
    /\ transcribed = 0
    /\ no_transcribe = FALSE
    /\ ds_skip_existing = FALSE
    /\ ds_max = 0
    /\ builds = 0

\* main up to the record loop (lines 104-136): the arguments, the load of
\* index.json and the deduplication.  The records carry no timestamp here, so
\* the sort of line 126 leaves them in the order of by_id.
StartBuild ==
    /\ dpc = "idle"
    /\ builds < MaxBuilds
    /\ index_json.state = "ok"
    /\ builds' = builds + 1
    /\ no_transcribe' \in BOOLEAN
    /\ ds_skip_existing' \in BOOLEAN
    /\ ds_max' \in 0 .. MaxTranscribe
    /\ drecords' = DedupById(index_json.records, 1, <<>>)
    /\ di' = 1
    /\ transcribed' = 0
    /\ dpc' = "loop"
    /\ UNCHANGED <<audio_files, transcripts, unified_json, item_files,
                   walkVars, mergeVars, runVars, indexVars, orderVars>>

\* load_api_key finds no key (line 133): SystemExit before the record loop
BuildFails ==
    /\ dpc = "idle"
    /\ builds < MaxBuilds
    /\ builds' = builds + 1
    /\ no_transcribe' = FALSE
    /\ UNCHANGED <<dpc, audio_files, transcripts, unified_json, item_files,
                   drecords, di, transcribed, ds_skip_existing, ds_max,
                   walkVars, mergeVars, runVars, indexVars, orderVars>>

\* one iteration of `for rec in records` (lines 137-175)
TranscribeStep ==
    /\ dpc = "loop"
    /\ di <= Len(drecords)
    /\ \E outcome \in TranscribeOutcomes :
          LET res == TranscribeRecord(drecords[di], transcripts, audio_files,
                                      transcribed, no_transcribe,
                                      ds_skip_existing, ds_max, outcome)
          IN /\ drecords' = [drecords EXCEPT ![di] = res.rec]
             /\ transcripts' = res.transcripts
             /\ transcribed' = res.transcribed
             /\ di' = IF res.brk THEN Len(drecords) + 1 ELSE di + 1
    /\ UNCHANGED <<dpc, audio_files, unified_json, item_files, no_transcribe,
                   ds_skip_existing, ds_max, builds,
                   walkVars, mergeVars, runVars, indexVars, orderVars>>

\* lines 178-197: the per-item files and unified.json are written
WriteUnified ==
    /\ dpc = "loop"
    /\ di > Len(drecords)
    /\ item_files' = WriteItems(item_files, drecords, 1)
    /\ unified_json' = StoreFile(drecords)
    /\ dpc' = "idle"
    /\ UNCHANGED <<audio_files, transcripts, drecords, di, transcribed,
                   no_transcribe, ds_skip_existing, ds_max, builds,
                   walkVars, mergeVars, runVars, indexVars, orderVars>>

-----------------------------------------------------------------------------
(* build_rag_index.main: builds of the vector index from unified.json *)

\* the texts a record can yield are 1 .. MaxText
MaxText == 2
\* largest --batch tried
MaxBatch == 2

\* a record whose title and transcript give the empty text (`if not text`)
NoText == 0
Texts == 1 .. MaxText

\* In this part a record of unified.json is held as its id and the text that
\* lines 87-89 make of its title and transcript.  The stores build_dataset can
\* have written: up to MaxIds records of distinct ids (named 1, 2, ... in the
\* order of the list), each with a text or with none.
SourceRecords(n) ==
    {l \in [1 .. n -> [id : Ids, text : Texts \cup {NoText}]] :
        \A i \in 1 .. n : l[i].id = i}
IndexStores == {StoreFile(l) : l \in UNION {SourceRecords(n) : n \in 0 .. MaxIds}}

\* the embedding the provider returns for a text: a vector of two components,
\* of a different direction for every text
Embed(t) == <<t, MaxText + 1 - t>>

\* lines 77-99 from record i on: the lists ids, texts and meta
RECURSIVE BuildTexts(_, _, _)
BuildTexts(recs, i, acc) ==
    IF i > Len(recs) THEN acc
    ELSE LET rec == recs[i] IN
         IF rec.id = NoId \/ rec.text = NoText
         THEN BuildTexts(recs, i + 1, acc)
         ELSE BuildTexts(recs, i + 1,
                         [ids   |-> Append(acc.ids, rec.id),
                          texts |-> Append(acc.texts, rec.text),
                          meta  |-> Append(acc.meta, [id |-> rec.id])])

\* `texts[i : i + args.batch]`
BatchOf(txts, i, b) ==
    SubSeq(txts, i + 1, IF i + b < Len(txts) THEN i + b ELSE Len(txts))

\* `[d.embedding for d in resp.data]`: the provider answers a batch with one
\* embedding per input, in the order of the inputs
EmbedAll(b) == [j \in 1 .. Len(b) |-> Embed(b[j])]

\* (variant: the embeddings of a batch are put in front of the list)
ExtendInFront(vecs, new) == new \o vecs

\* `vectors.extend(...)`
Extend(vecs, new) == vecs \o new

\* (variant: the exception of a batch only ends the batch loop)
AfterRaiseSave == "save"

\* where main is after `client.embeddings.create` raised: the exception is not
\* caught, main is left
AfterRaise == "idle"

\* embeddings.npy holding the array of the given rows
MatrixFile(rows) == [state |-> "ok", rows |-> rows]
NoMatrix == [state |-> "missing", rows |-> <<>>]
\* metadata.json (lines 119-126)
MetadataFile(idl, mt) ==
    [state |-> "ok", count |-> Len(idl), ids |-> idl, meta |-> mt]
NoMetadata == [state |-> "missing", count |-> 0, ids |-> <<>>, meta |-> <<>>]

\* what the handler did on the way to a response: the provider calls it made,
\* the exception that left it, the query vector and the rows it picked
History(calls, raised, q_vec, top_idx) ==
    [calls |-> calls, raised |-> raised, q_vec |-> q_vec, top_idx |-> top_idx]
NoHistory == History(0, "", <<>>, <<>>)

\* a response of the answer service to a request with top_k = asked; k is the
\* handler's top_k and n the number of rows of the matrix
Response(kind, asked, k, n, sources, hist) ==
    [kind |-> kind, asked |-> asked, top_k |-> k, rows |-> n,
     sources |-> sources, calls |-> hist.calls, raised |-> hist.raised,
     q_vec |-> hist.q_vec, top_idx |-> hist.top_idx]
NoResponse == Response("none", 0, 0, 0, <<>>, NoHistory)

\* no index build is running and no request was answered; the two index
\* files are the given ones
IndexIdleOn(matrix, metadata) ==
    /\ ipc = "idle"
    /\ batch = 1
    /\ irecords = <<>>
    /\ ids = <<>>
    /\ texts = <<>>
    /\ meta = <<>>
    /\ vectors = <<>>
    /\ bi = 0
    /\ embeddings_npy = matrix
    /\ metadata_json = metadata
    /\ ibuilds = 0
    /\ raisedIn = FALSE
    /\ batches = 0
    /\ endedBuild = "none"
    /\ stale = FALSE
    /\ a_result = NoResponse

IndexIdle == IndexIdleOn(NoMatrix, NoMetadata)

\* main returns or is left by an exception: its arguments and locals are gone
BuildOver ==
    /\ ipc' = "idle"
    /\ batch' = 1
    /\ irecords' = <<>>
    /\ ids' = <<>>
    /\ texts' = <<>>
    /\ meta' = <<>>
    /\ vectors' = <<>>
    /\ bi' = 0

\* main up to the batch loop (lines 58-107)
StartIndexBuild ==
    /\ ipc = "idle"
    /\ ibuilds < MaxBuilds
    /\ unified_json.state = "ok"
    /\ ibuilds' = ibuilds + 1
    /\ batch' \in 1 .. MaxBatch
    /\ irecords' = unified_json.records
    /\ LET t == BuildTexts(unified_json.records, 1,
                           [ids |-> <<>>, texts |-> <<>>, meta |-> <<>>])
       IN /\ ids' = t.ids
          /\ texts' = t.texts
          /\ meta' = t.meta
          /\ ipc' = IF Len(t.texts) = 0 THEN "save" ELSE "embed"
    /\ vectors' = <<>>
    /\ bi' = 0
    /\ raisedIn' = FALSE
    /\ batches' = 0
    /\ stale' = FALSE
    /\ UNCHANGED <<embeddings_npy, metadata_json, endedBuild, a_result,
                   walkVars, mergeVars, runVars, datasetVars, orderVars>>

\* one iteration of the batch loop (lines 108-114)
EmbedBatch ==
    /\ ipc = "embed"
    /\ vectors' = Extend(vectors, EmbedAll(BatchOf(texts, bi, batch)))
    /\ bi' = bi + batch
    /\ batches' = batches + 1
    /\ ipc' = IF bi + batch < Len(texts) THEN "embed" ELSE "save"
    /\ UNCHANGED <<batch, irecords, ids, texts, meta, embeddings_npy,
                   metadata_json, ibuilds, raisedIn, endedBuild, stale,
                   a_result, walkVars, mergeVars, runVars, datasetVars,
                   orderVars>>

\* `client.embeddings.create` raises on the batch at hand (line 110)
EmbedRaises ==
    /\ ipc = "embed"
    /\ IF AfterRaise = "idle"
       THEN BuildOver
       ELSE /\ ipc' = AfterRaise
            /\ UNCHANGED <<batch, irecords, ids, texts, meta, vectors, bi>>
    /\ raisedIn' = TRUE
    /\ endedBuild' = "raised"
    /\ UNCHANGED <<embeddings_npy, metadata_json, ibuilds, batches, stale,
                   a_result, walkVars, mergeVars, runVars, datasetVars,
                   orderVars>>

\* lines 116-117: np.save writes embeddings.npy
SaveEmbeddings ==
    /\ ipc = "save"
    /\ embeddings_npy' = MatrixFile(vectors)
    /\ ipc' = "meta"
    /\ UNCHANGED <<batch, irecords, ids, texts, meta, vectors, bi,
                   metadata_json, ibuilds, raisedIn, batches, endedBuild,
                   stale, a_result, walkVars, mergeVars, runVars, datasetVars,
                   orderVars>>

\* lines 119-126: write_json writes metadata.json, and main returns
WriteMetadata ==
    /\ ipc = "meta"
    /\ metadata_json' = MetadataFile(ids, meta)
    /\ BuildOver
    /\ endedBuild' = "written"
    /\ UNCHANGED <<embeddings_npy, ibuilds, raisedIn, batches, stale,
                   a_result, walkVars, mergeVars, runVars, datasetVars,
                   orderVars>>

\* the build is stopped between the two writes (killed, or write_json raises)
BuildKilled ==
    /\ ipc = "meta"
    /\ BuildOver
    /\ endedBuild' = "killed"
    /\ UNCHANGED <<embeddings_npy, metadata_json, ibuilds, raisedIn, batches,
                   stale, a_result, walkVars, mergeVars, runVars, datasetVars,
                   orderVars>>

\* build_dataset writes unified.json anew (build_dataset.py lines 185-197),
\* from an index.json that the crawl runs have changed in the meantime.  Two
\* rewrites in a row leave what one rewrite leaves, so the model follows one
\* rewrite between two index builds.
UnifiedRewritten ==
    /\ ipc = "idle"
    /\ ~stale
    /\ stale' = TRUE
    /\ \E file \in IndexStores : file # unified_json /\ unified_json' = file
    /\ UNCHANGED <<dpc, audio_files, transcripts, item_files, drecords, di,
                   transcribed, no_transcribe, ds_skip_existing, ds_max,
                   builds, ipc, batch, irecords, ids, texts, meta, vectors,
                   bi, embeddings_npy, metadata_json, ibuilds, raisedIn,
                   batches, endedBuild, a_result, walkVars, mergeVars,
                   runVars, orderVars>>

-----------------------------------------------------------------------------
(* answer_api.answer: a request in rag mode *)

\* largest top_k tried
MaxK == 2

\* sum of a[j] * b[j] for j in i .. Len(a)
RECURSIVE SumProducts(_, _, _)
SumProducts(a, b, i) ==
    IF i > Len(a) THEN 0 ELSE a[i] * b[i] + SumProducts(a, b, i + 1)

\* the similarity of a row to the query: cosine_sim divides the dot product by
\* the two norms; the norm of the query is the same for every row, so a score
\* is held as the dot product and the squared norm of the row
Dot(a, b) == SumProducts(a, b, 1)
Score(row, q) == [dot |-> Dot(row, q), norm2 |-> Dot(row, row)]
\* score s is greater than score t (the components are never negative)
Greater(s, t) == s.dot * s.dot * t.norm2 > t.dot * t.dot * s.norm2

\* `a_norm @ b_norm` for rows and a query of the same length
Sims(rows, q) == [i \in 1 .. Len(rows) |-> Score(rows[i], q)]

\* (variant: rows and query are cut to their common length)
cosine_sim_truncating(rows, q) ==
    IF rows = <<>> THEN [raised |-> "AxisError", sims |-> <<>>]
    ELSE LET n == IF Len(q) < Len(rows[1]) THEN Len(q) ELSE Len(rows[1]) IN
         [raised |-> "",
          sims |-> Sims([i \in 1 .. Len(rows) |-> SubSeq(rows[i], 1, n)],
                        SubSeq(q, 1, n))]

\* cosine_sim(emb, q_vec), lines 49-52.  An index built from no text was saved
\* from np.array([]), an array of one dimension, for which
\* np.linalg.norm(a, axis=1) raises; `a_norm @ b_norm` raises ValueError when
\* the rows and the query differ in length.
cosine_sim(rows, q) ==
    IF rows = <<>> THEN [raised |-> "AxisError", sims |-> <<>>]
    ELSE IF Len(rows[1]) # Len(q) THEN [raised |-> "ValueError", sims |-> <<>>]
    ELSE [raised |-> "", sims |-> Sims(rows, q)]

\* what the provider returns for the question (line 211): the embedding of its
\* text by the model metadata.json names, which has the length of the rows,
\* or is shorter or longer when the matrix comes from a build with another
\* model
QueryEmbeddings(q) == {Embed(q), <<q>>, Embed(q) \o <<q>>}

\* `min(req.top_k, len(sims)) if req.top_k > 0 else len(sims)`
TopK(k, n) == IF k > 0 THEN (IF k < n THEN k ELSE n) ELSE n

\* `np.argsort(-sims)`: the row numbers by descending score.  The default sort
\* kind of argsort is not stable: rows of equal score come in an order the
\* sort algorithm chooses.
Rankings(sims) ==
    {p \in [1 .. Len(sims) -> 1 .. Len(sims)] :
        /\ \A i, j \in 1 .. Len(sims) : p[i] = p[j] => i = j
        /\ \A i, j \in 1 .. Len(sims) : i < j => ~Greater(sims[p[j]], sims[p[i]])}

\* `id_to_idx.get(vid)`: the last row of the id
LastIndex(idl, vid) ==
    CHOOSE i \in 1 .. Len(idl) :
        idl[i] = vid /\ \A j \in i + 1 .. Len(idl) : idl[j] # vid

\* lines 220-234 from position i of ids on: the list sources
RECURSIVE Sources(_, _, _, _, _, _)
Sources(picked, i, recs, idl, sims, acc) ==
    IF i > Len(picked) THEN acc
    ELSE IF ~HasId(recs, picked[i])
    THEN Sources(picked, i + 1, recs, idl, sims, acc)
    ELSE Sources(picked, i + 1, recs, idl, sims,
                 Append(acc, [id |-> picked[i],
                              score |-> sims[LastIndex(idl, picked[i])]]))

\* the handler from the retrieval on (lines 214-251), for the query vector
\* q_vec: the response
Retrieve(k, q_vec, provider) ==
    LET rows == embeddings_npy.rows
        cs == cosine_sim(rows, q_vec)
    IN
    IF cs.raised # ""
    THEN {Response("crash", k, 0, Len(rows), <<>>,
                   History(1, cs.raised, q_vec, <<>>))}
    ELSE LET top_k == TopK(k, Len(cs.sims)) IN
         {LET top_idx == SubSeq(order, 1, top_k) IN
          IF \E i \in 1 .. top_k : top_idx[i] > Len(metadata_json.ids)
          THEN \* `meta["ids"][i]` raises IndexError
               Response("crash", k, top_k, Len(rows), <<>>,
                        History(1, "IndexError", q_vec, top_idx))
          ELSE LET picked == [i \in 1 .. top_k |->
                                 metadata_json.ids[top_idx[i]]]
                   sources == Sources(picked, 1, unified_json.records,
                                      metadata_json.ids, cs.sims, <<>>)
               IN IF provider = "raise"
                  THEN Response("api_error", k, top_k, Len(rows), <<>>,
                                History(2, "", q_vec, top_idx))
                  ELSE Response("ok", k, top_k, Len(rows), sources,
                                History(2, "", q_vec, top_idx))
            : order \in Rankings(cs.sims)}

\* (variant: only metadata.json is looked for)
load_index_metadata_only ==
    IF metadata_json.state # "ok" THEN "none" ELSE "loaded"

\* load_index(profile_dir), lines 63-71: (None, None) unless both files of
\* the index exist
load_index ==
    IF metadata_json.state # "ok" \/ embeddings_npy.state # "ok"
    THEN "none" ELSE "loaded"

\* the handler for one request in rag mode with top_k = k and a question of
\* text q (lines 177-251); embedded and provider say whether the embedding
\* call of line 211 and the answer-model call of line 239 return or raise
Answer ==
    /\ \E k \in 0 .. MaxK, q \in Texts, embedded \in {"ok", "raise"},
          provider \in {"ok", "raise"} :
          IF unified_json.state # "ok"
          THEN a_result' = Response("no_dataset", k, 0, 0, <<>>, NoHistory)
          ELSE IF load_index = "none"
          THEN a_result' = Response("index_missing", k, 0, 0, <<>>, NoHistory)
          ELSE IF embedded = "raise"
          THEN \* nothing catches the exception of line 211
               a_result' = Response("crash", k, 0, Len(embeddings_npy.rows),
                                    <<>>, History(1, "provider", <<>>, <<>>))
          ELSE \E q_vec \in QueryEmbeddings(q) :
                  a_result' \in Retrieve(k, q_vec, provider)
    /\ UNCHANGED <<ipc, batch, irecords, ids, texts, meta, vectors, bi,
                   embeddings_npy, metadata_json, ibuilds, raisedIn, batches,
                   endedBuild, stale, walkVars, mergeVars, runVars,
                   datasetVars, orderVars>>

-----------------------------------------------------------------------------
(* build_dataset.main, lines 111-126: the records of index.json are        *)
(* deduplicated by id and sorted; export_rag.main, lines 118-120, sorts    *)
(* the records of unified.json again                                       *)

\* longest input record list
MaxRecs == 3

\* an integer value
IntVal(n) == [tag |-> "int", str |-> "", caps |-> <<>>, num |-> n]

\* the keys of a record of index.json that the deduplication and the sort read
\* or merge
DatasetFields == Fields \cup {"timestamp"}

\* the ids "1", "2", ... by number
IdNames == <<"1", "2", "3", "4", "5">>

\* (variant: a missing timestamp sorts as 0)
sort_key_zero(rec) ==
    LET ts == rec["timestamp"] IN
    IF ts = Absent \/ ts = None THEN 0
    ELSE IF ts.tag = "int" THEN ts.num
    ELSE -1

\* sort_key (build_dataset.py lines 73-78, export_rag.py lines 47-52):
\* `int(ts) if ts is not None else -1`; int() of an integer is that integer,
\* and int() of a string without digits, a list or a dict raises, which the
\* except clause turns into -1
sort_key(rec) ==
    LET ts == rec["timestamp"] IN
    IF ts = Absent \/ ts = None THEN -1
    ELSE IF ts.tag = "int" THEN ts.num
    ELSE -1

\* a list that is sorted by sort_key, reverse=True, takes record r: the sort is
\* stable, so r goes behind the records whose key is not smaller
RECURSIVE InsertSorted(_, _)
InsertSorted(lst, r) ==
    IF lst = <<>> THEN <<r>>
    ELSE IF sort_key(Head(lst)) >= sort_key(r)
    THEN <<Head(lst)>> \o InsertSorted(Tail(lst), r)
    ELSE <<r>> \o lst

\* `records.sort(key=sort_key, reverse=True)` from position i on
RECURSIVE SortRecords(_, _, _)
SortRecords(recs, i, out) ==
    IF i > Len(recs) THEN out
    ELSE SortRecords(recs, i + 1, InsertSorted(out, recs[i]))

\* `if not vid: continue`
NoVid(rec) == ~Populated(rec["id"])

\* (variant: the later sighting is the primary of the merge)
MergeSightingLaterFirst(first, rec) == merge_records(rec, first)

\* `by_id[vid] = merge_records(by_id[vid], rec)`
MergeSighting(first, rec) == merge_records(first, rec)

\* one iteration of `for rec in records_in` (lines 116-123) on the dict d
DedupRecord(d, rec) ==
    IF NoVid(rec) THEN d
    ELSE IF HasId(d, rec["id"])
    THEN PutRecord(d, MergeSighting(Lookup(d, rec["id"]), rec))
    ELSE Append(d, rec)

\* input records that differ in what the merge looks at: with no id, or one
\* of two ids; plain records with or without a title and a timestamp, and
\* records of id "1" with captions
DedupRecords ==
    {[k \in DatasetFields |->
        CASE k = "id" -> vid [] k = "title" -> ti [] k = "timestamp" -> ts
          [] OTHER -> Absent] :
        vid \in {Str(""), Str("1"), Str("2")},
        ti \in {Absent, Str("Old Title"), Str("New Title")},
        ts \in {Absent, IntVal(2)}}
    \cup
    {[k \in DatasetFields |->
        CASE k = "id" -> Str("1") [] k = "captions" -> List(<<c>>)
          [] OTHER -> Absent] :
        c \in {Caption("en", "1.en.vtt", ""), Caption("en", "1.en.vtt", "hi"),
               Caption("de", "1.de.vtt", "hi")}}
DedupInputs == UNION {[1 .. n -> DedupRecords] : n \in 0 .. MaxRecs}

\* the timestamps a record of index.json can carry: none, None, a string that
\* is no number, or the createTime of the feed
Stamps == {Absent, None, Str("n/a"), IntVal(0), IntVal(1), IntVal(2)}

\* input records with pairwise different ids, that differ in their timestamps
StampedRecord(i, ts) ==
    [k \in DatasetFields |->
        CASE k = "id" -> Str(IdNames[i]) [] k = "timestamp" -> ts
          [] OTHER -> Absent]
SortInputs ==
    UNION {{[i \in 1 .. n |-> StampedRecord(i, f[i])] :
               f \in [1 .. n -> Stamps]} : n \in 0 .. MaxRecs}

OrderIdle ==
    /\ opc = "off"
    /\ records_in = <<>>
    /\ by_id = <<>>
    /\ ri = 1
    /\ sorted_records = <<>>
    /\ export_records = <<>>

\* line 112: records_in = idx.get("records", [])
OrderInit(inputs) ==
    /\ opc = "dedup"
    /\ records_in \in inputs
    /\ by_id = <<>>
    /\ ri = 1
    /\ sorted_records = <<>>
    /\ export_records = <<>>

\* one iteration of `for rec in records_in` (lines 116-123)
DedupStep ==
    /\ opc = "dedup"
    /\ ri <= Len(records_in)
    /\ by_id' = DedupRecord(by_id, records_in[ri])
    /\ ri' = ri + 1
    /\ UNCHANGED <<opc, records_in, sorted_records, export_records, walkVars,
                   mergeVars, runVars, datasetVars, indexVars>>

\* lines 125-126: records = list(by_id.values()); records.sort(...)
SortStep ==
    /\ opc = "dedup"
    /\ ri > Len(records_in)
    /\ sorted_records' = SortRecords(by_id, 1, <<>>)
    /\ opc' = "sort"
    /\ UNCHANGED <<records_in, by_id, ri, export_records, walkVars, mergeVars,
                   runVars, datasetVars, indexVars>>

\* export_rag.main, lines 118-120, on the unified.json that build_dataset
\* wrote with these records in this order (build_dataset.py line 195)
ExportSort ==
    /\ opc = "sort"
    /\ export_records' = SortRecords(sorted_records, 1, <<>>)
    /\ opc' = "export"
    /\ UNCHANGED <<records_in, by_id, ri, sorted_records, walkVars, mergeVars,
                   runVars, datasetVars, indexVars>>

-----------------------------------------------------------------------------
(* Specifications *)

\* the walker alone, fed by an arbitrary page source
InitWalk ==
    WalkInit /\ MergeIdle /\ RunInit /\ DatasetIdle /\ IndexIdle
        /\ OrderIdle
NextWalk == Fetch \/ FetchRaises
SpecWalk == InitWalk /\ [][NextWalk]_vars

\* merge_records alone, on every pair of input records
InitMerge ==
    WalkInit /\ max_videos = 0 /\ MergeInit /\ RunInit /\ DatasetIdle
        /\ IndexIdle /\ OrderIdle
NextMerge == Merge \/ MergeAgain
SpecMerge == InitMerge /\ [][NextMerge]_vars

\* runs of embed_pipeline.main, one after the other, on one profile directory
Init ==
    WalkInit /\ max_videos = 0 /\ MergeIdle /\ RunInit /\ DatasetIdle
        /\ IndexIdle /\ OrderIdle
Next ==
    StartRun \/ CrawlFails \/ ProcessItem \/ WriteIndex \/ WriteInterrupted
Spec == Init /\ [][Next]_vars

\* runs of the two crawl entry points on one profile directory
NextCrawl ==
    \/ StartRun \/ CrawlFails \/ ProcessItem \/ WriteIndex \/ WriteInterrupted
    \/ StartPipelineRun \/ ProcessVideo \/ WritePipelineIndex
SpecCrawl == Init /\ [][NextCrawl]_vars

\* builds of build_dataset.main on a store written by a crawl run
InitDataset ==
    /\ WalkInit /\ max_videos = 0 /\ MergeIdle /\ IndexIdle /\ OrderIdle
    /\ \E file \in DatasetStores : RunInitOn(file)
    /\ DatasetInit
NextDataset == StartBuild \/ BuildFails \/ TranscribeStep \/ WriteUnified
SpecDataset == InitDataset /\ [][NextDataset]_vars

\* the profile directory before the first index build: some unified.json
IndexInit ==
    /\ dpc = "idle"
    /\ audio_files = {}
    /\ transcripts = {}
    /\ unified_json \in IndexStores
    /\ item_files = <<>>
    /\ drecords = <<>>
    /\ di = 1
    /\ transcribed = 0
    /\ no_transcribe = FALSE
    /\ ds_skip_existing = FALSE
    /\ ds_max = 0
    /\ builds = 0

\* builds of build_rag_index.main, between which unified.json may be rewritten
InitIndex ==
    WalkInit /\ max_videos = 0 /\ MergeIdle /\ RunInit /\ IndexInit
        /\ IndexIdle /\ OrderIdle
NextIndex ==
    \/ StartIndexBuild \/ EmbedBatch \/ EmbedRaises \/ SaveEmbeddings
    \/ WriteMetadata \/ BuildKilled \/ UnifiedRewritten
SpecIndex == InitIndex /\ [][NextIndex]_vars

\* the index builds together with the requests of the answer service
NextAnswer == NextIndex \/ Answer
SpecAnswer == InitIndex /\ [][NextAnswer]_vars

\* the files a build of build_rag_index.main makes of the records of a store
BuiltFrom(store) ==
    BuildTexts(store.records, 1, [ids |-> <<>>, texts |-> <<>>, meta |-> <<>>])
MatrixOf(store) == MatrixFile(EmbedAll(BuiltFrom(store).texts))
MetadataOf(store) ==
    MetadataFile(BuiltFrom(store).ids, BuiltFrom(store).meta)

\* The files a request can find, as <<embeddings.npy, metadata.json,
\* unified.json>>: the index of a finished build, beside the unified.json it
\* was built from or a later one; the matrix of a build that was killed
\* between its two writes, beside the metadata of an earlier build or none;
\* no index, beside a unified.json or none; an index whose embeddings.npy was
\* removed.
RetrieveInputs ==
    {<<MatrixOf(a), MetadataOf(a), s>> : a \in IndexStores, s \in IndexStores}
    \cup {<<MatrixOf(a), MetadataOf(b), a>> : a \in IndexStores, b \in IndexStores}
    \cup {<<MatrixOf(a), NoMetadata, a>> : a \in IndexStores}
    \cup {<<NoMatrix, NoMetadata, s>> : s \in IndexStores \cup {NoFile}}
    \cup {<<NoMatrix, MetadataOf(a), a>> : a \in IndexStores}

\* requests of the answer service on every such set of files
InitRetrieve ==
    /\ WalkInit /\ max_videos = 0 /\ MergeIdle /\ RunInit /\ OrderIdle
    /\ \E f \in RetrieveInputs :
          /\ IndexIdleOn(f[1], f[2])
          /\ unified_json = f[3]
    /\ dpc = "idle"
    /\ audio_files = {}
    /\ transcripts = {}
    /\ item_files = <<>>
    /\ drecords = <<>>
    /\ di = 1
    /\ transcribed = 0
    /\ no_transcribe = FALSE
    /\ ds_skip_existing = FALSE
    /\ ds_max = 0
    /\ builds = 0
\* the handler keeps nothing from one request to the next and writes no file:
\* the first request on a set of files shows all that later ones can do
NextRetrieve == a_result = NoResponse /\ Answer
SpecRetrieve == InitRetrieve /\ [][NextRetrieve]_vars

\* the deduplication and the sorts, on every list of records with repeated ids
InitDedup ==
    WalkInit /\ max_videos = 0 /\ MergeIdle /\ RunInit /\ DatasetIdle
        /\ IndexIdle /\ OrderInit(DedupInputs)
NextOrder == DedupStep \/ SortStep \/ ExportSort
SpecDedup == InitDedup /\ [][NextOrder]_vars

\* the same steps, on every list of records with different timestamps
InitSort ==
    WalkInit /\ max_videos = 0 /\ MergeIdle /\ RunInit /\ DatasetIdle
        /\ IndexIdle /\ OrderInit(SortInputs)
SpecSort == InitSort /\ [][NextOrder]_vars

-----------------------------------------------------------------------------
(* Claims about fetch_creator_items, checked under SpecWalk *)

\* C1: whatever the page source returns and whatever max_videos is, the walker
\* makes at most PAGE_CEILING - 1 page fetches (199 for the ceiling 200 of
\* the source): while it is still in the loop it has made page - 1 fetches
\* and page is below the ceiling, and it never makes more.
C1_BoundedFetches ==
    /\ fetches <= PAGE_CEILING - 1
    /\ wpc = "loop" => fetches = page - 1 /\ page <= PAGE_CEILING - 1

\* C1 witness: a walk that new ids kept alive up to the last page of the range
C1_Witness ==
    wpc = "done" /\ endedBy = "ceiling" /\ fetches = PAGE_CEILING - 1

\* the ids of the returned list are pairwise different
EachIdOnce ==
    \A i, j \in 1 .. Len(items) : items[i].id = items[j].id => i = j

ItemIds == {items[i].id : i \in 1 .. Len(items)}

\* C2 as stated: with max_videos = 0 the returned list has one item for each
\* distinct id of ALL pages of the feed, the pages the walker never asked for
\* included.
C2_AllPagesOfFeed ==
    (wpc = "done" /\ max_videos = 0 /\ repeated) =>
        /\ Len(items) = Cardinality(offered \cup unfetched)
        /\ ItemIds = offered \cup unfetched
        /\ EachIdOnce

\* C2 amended: with max_videos = 0 the returned list has exactly one item for
\* each distinct non-empty id of the pages the walker fetched.
C2_FetchedIdsOnce ==
    (wpc = "done" /\ max_videos = 0) =>
        /\ Len(items) = Cardinality(offered)
        /\ ItemIds = offered
        /\ EachIdOnce

\* C2 witness: a finished unbounded walk whose feed showed some id twice
C2_Witness ==
    wpc = "done" /\ max_videos = 0 /\ repeated /\ Len(items) = MaxIds

\* the stall counter over one iteration of the page loop: a page that adds no
\* item to the list is an empty page or a page without a new id
StallRuleStep ==
    (wpc = "loop" /\ wpc' # "raised") =>
        /\ fetches' = fetches + 1
        /\ IF Len(items') = Len(items)
           THEN no_new_pages' = no_new_pages + 1
           ELSE IF endedBy' = "cap"
           THEN no_new_pages' = no_new_pages
           ELSE no_new_pages' = 0
        /\ seen' = seen <=> Len(items') = Len(items)
        /\ no_new_pages' >= STALL_LIMIT <=> endedBy' = "stall"
        /\ endedBy' = "stall" => wpc' = "done"

\* the scenario feed [{id:1,t}], [], [], [], [{id:2}] with max_videos = 0 ends
\* after four fetches, on the stall counter, with item 1 only
ScenarioEndsAtFour(t) ==
    (max_videos = 0 /\ scen.n >= 1 /\ scen.t = t) =>
        /\ scen.n <= 4
        /\ wpc = "done" <=> scen.n = 4
        /\ wpc = "done" =>
              /\ fetches = 4 /\ endedBy = "stall"
              /\ no_new_pages = STALL_LIMIT
              /\ items = ScenarioPage(1, t)

\* C3 as stated: on the scenario feed with creation time 100 the walker
\* fetches the first page and the three empty pages and stops on the stall
\* counter.
C3_ScenarioAsStated == ScenarioEndsAtFour(100)

\* C3 amended: every empty page and every non-empty page without a new id
\* adds one to the stall counter, every page with a new id resets it (a page
\* on which the item cap is reached returns at once and leaves the counter as
\* it was), and the walk stops, fetching nothing more, when the counter
\* reaches 3.  The scenario ends after four fetches with item 1 only when its
\* creation time is not below the floor; with creation time 100 the walk
\* stops on the floor right after the first page, with item 1 only.
C3_StallRule ==
    [][ /\ StallRuleStep
        /\ wpc # "loop" => fetches' = fetches
        /\ ScenarioEndsAtFour(THigh)'
        /\ (max_videos = 0 /\ scen.n = 0 /\ scen'.n = 1 /\ scen'.t = 100) =>
              (wpc' = "done" /\ endedBy' = "floor" /\ fetches' = 1
               /\ items' = ScenarioPage(1, 100))
      ]_vars

\* C3 witness: the scenario feed above the floor, stopped by the third stall
C3_Witness ==
    /\ max_videos = 0 /\ scen = [t |-> THigh, n |-> 4]
    /\ wpc = "done" /\ endedBy = "stall" /\ fetches = 4
    /\ items = ScenarioPage(1, THigh)

\* C4: with max_videos > 0 the list never holds more than max_videos items,
\* and the walk has returned, by the cap, as soon as it holds that many;
\* with max_videos = 0 the cap never ends the walk.
C4_ItemCap ==
    /\ max_videos > 0 =>
          /\ Len(items) <= max_videos
          /\ Len(items) = max_videos => wpc = "done" /\ endedBy = "cap"
          /\ endedBy = "cap" => Len(items) = max_videos
    /\ max_videos = 0 => endedBy # "cap"

\* C4 witness: the cap was reached in the middle of a page, whose second new
\* id was left unconsumed
C4_Witness ==
    /\ max_videos = 1 /\ wpc = "done" /\ endedBy = "cap"
    /\ Len(items) = 1 /\ Cardinality(offered) = 2 /\ fetches = 1

\* C15: a page fetch that raises is the walker's last fetch: the failing page
\* is requested once, the exception leaves the walker (it never returns an
\* item list, whatever it had gathered), and no page is requested afterwards.
C15_FetchFailurePropagates ==
    [][ /\ (wpc = "loop" /\ endedBy' = "raise") =>
              /\ wpc' = "raised"
              /\ fetches' = fetches + 1
              /\ page' = page /\ cursor' = cursor
        /\ endedBy = "raise" =>
              (wpc = "raised" /\ wpc' = "raised" /\ fetches' = fetches)
      ]_vars

\* C15 witness: the second fetch raised when the walker held a partial list
C15_Witness ==
    wpc = "raised" /\ endedBy = "raise" /\ fetches = 2 /\ Len(items) = 1

-----------------------------------------------------------------------------
(* Claims about merge_records, checked under SpecMerge *)

\* the keys of a captions list, the key "" of a caption without lang and path
\* included
Keys(l) == {KeyOf(l[i]) : i \in 1 .. Len(l)}
CapSet(l) == {l[i] : i \in 1 .. Len(l)}
\* a captions list in which every caption has a key and no key comes twice
WellKeyed(l) ==
    /\ "" \notin Keys(l)
    /\ \A i, j \in 1 .. Len(l) : KeyOf(l[i]) = KeyOf(l[j]) => i = j
\* the first caption of l with key k
CapOf(l, k) ==
    l[CHOOSE i \in 1 .. Len(l) :
        KeyOf(l[i]) = k /\ \A j \in 1 .. i - 1 : KeyOf(l[j]) # k]
IsList(v) == v.tag = "list"

\* C5: after a merge every field that is populated in a or in b is populated
\* in the result (also when b is merged in a second time).
C5_NonRegressive ==
    mpc # "start" =>
        \A f \in Fields :
            (Populated(ra[f]) \/ Populated(rb[f])) => Populated(rout[f])

\* C5 witness: a merge in which b offers an empty value for a field that a has
\* populated, and one in which only b has the field populated
C5_Witness ==
    /\ mpc = "merged"
    /\ \/ (Populated(ra["captions"]) /\ rb["captions"] = List(<<>>))
       \/ (Populated(ra["title"]) /\ rb["title"] = Str(""))

\* C6: merge_records(r, r) = r, and merging b into merge_records(a, b) once
\* more changes nothing.
C6_Idempotent ==
    /\ (mpc = "merged" /\ ra = rb) => rout = ra
    /\ mpc = "again" => rout = merge_records(ra, rb)

\* the caption the claim expects for key k: the one of the first side whose
\* caption of that key has text, else the first side that has the key at all
ExpectedCaption(pa, pb, k) ==
    IF k \in Keys(pa) /\ CapOf(pa, k).text # "" THEN CapOf(pa, k)
    ELSE IF k \in Keys(pb) /\ CapOf(pb, k).text # "" THEN CapOf(pb, k)
    ELSE IF k \in Keys(pa) THEN CapOf(pa, k)
    ELSE CapOf(pb, k)

\* C7: for two well-keyed caption lists that share a key, the merged list has
\* the union of the keys, and for each key the caption of the first side whose
\* caption has a non-empty text.
C7_CaptionUnion ==
    (/\ mpc = "merged"
     /\ IsList(ra["captions"]) /\ IsList(rb["captions"])
     /\ WellKeyed(ra["captions"].caps) /\ WellKeyed(rb["captions"].caps)
     /\ Keys(ra["captions"].caps) \cap Keys(rb["captions"].caps) # {})
    => LET pa == ra["captions"].caps
           pb == rb["captions"].caps
           po == rout["captions"].caps
       IN /\ Keys(po) = Keys(pa) \cup Keys(pb)
          /\ \A k \in Keys(po) : CapOf(po, k) = ExpectedCaption(pa, pb, k)

\* no field is populated with different values on both sides; two captions
\* lists without a common key do not conflict
NonConflicting(a, b) ==
    \A f \in Fields :
        (Populated(a[f]) /\ Populated(b[f])) =>
            \/ a[f] = b[f]
            \/ /\ f = "captions"
               /\ Keys(a[f].caps) \cap Keys(b[f].caps) = {}

\* C8 as stated: on non-conflicting records merge_records(a, b) equals
\* merge_records(b, a).
C8_Commutative ==
    (mpc = "merged" /\ NonConflicting(ra, rb)) => rout = merge_records(rb, ra)

\* C8 amended: on non-conflicting records merge_records(a, b) and
\* merge_records(b, a) have the same populated fields; a populated field other
\* than captions has the same value in both; the two captions lists have the
\* same non-empty keys, and the same captions in a different order when each
\* input list is well keyed.  (Fields populated on neither side may differ:
\* None against a missing key, "" against [].)
C8_CommutativeOnPopulated ==
    (mpc = "merged" /\ NonConflicting(ra, rb)) =>
        LET other == merge_records(rb, ra) IN
        \A f \in Fields :
            /\ Populated(rout[f]) <=> Populated(other[f])
            /\ (f # "captions" /\ Populated(rout[f])) => rout[f] = other[f]
            /\ Keys(rout[f].caps) \ {""} = Keys(other[f].caps) \ {""}
            /\ (WellKeyed(ra[f].caps) /\ WellKeyed(rb[f].caps)) =>
                  CapSet(rout[f].caps) = CapSet(other[f].caps)

\* C8 witness: two populated captions lists without a common key, whose union
\* comes out in two different orders
C8_Witness ==
    /\ mpc = "merged" /\ NonConflicting(ra, rb)
    /\ Populated(ra["captions"]) /\ Populated(rb["captions"])
    /\ ra["captions"] # rb["captions"]
    /\ rout # merge_records(rb, ra)

\* the scenario of the claim
StoredRecord ==
    [k \in Fields |-> CASE k = "id" -> Str("1")
                        [] k = "audio_path" -> Str("a.mp3")
                        [] OTHER -> Absent]
FreshRecord ==
    [k \in Fields |-> CASE k = "id" -> Str("1")
                        [] k = "audio_path" -> None
                        [] k = "title" -> Str("New Title")
                        [] OTHER -> Absent]
ReconciledRecord ==
    [k \in Fields |-> CASE k = "id" -> Str("1")
                        [] k = "audio_path" -> Str("a.mp3")
                        [] k = "title" -> Str("New Title")
                        [] OTHER -> Absent]

\* C9 as stated: a null or empty value of the secondary leaves the field as the
\* primary has it, a populated value of the primary is kept, and a populated
\* value of the secondary is adopted exactly where the primary has none.
C9_AdoptionAsStated ==
    mpc = "merged" =>
        \A f \in Fields :
            /\ ~Populated(rb[f]) => rout[f] = ra[f]
            /\ Populated(ra[f]) => rout[f] = ra[f]
            /\ (Populated(rb[f]) /\ ~Populated(ra[f])) => rout[f] = rb[f]

\* C9 amended: a missing or None value of the secondary leaves the field as
\* the primary has it; an empty value other than None ("", [], {}) is stored
\* only where the primary's field is absent or empty, so it never replaces a
\* populated value; a populated value of the primary is kept, except that a
\* populated captions list merged with a list is replaced by the union by key
\* (every key of the primary is kept, every caption comes from one of the two
\* lists); a populated value of the secondary is adopted exactly where the
\* primary's field is absent or empty.  The scenario yields the record stated.
C9_Adoption ==
    mpc = "merged" =>
        /\ \A f \in Fields :
             /\ rb[f] \in {Absent, None} => rout[f] = ra[f]
             /\ (IsEmpty(rb[f]) /\ rb[f] # None) =>
                   IF Populated(ra[f]) THEN Populated(rout[f])
                   ELSE rout[f] = rb[f]
             /\ (Populated(ra[f]) /\ ~(f = "captions" /\ IsList(rb[f]))) =>
                   rout[f] = ra[f]
             /\ (Populated(ra[f]) /\ f = "captions" /\ IsList(rb[f])) =>
                   /\ Keys(ra[f].caps) \subseteq Keys(rout[f].caps)
                   /\ CapSet(rout[f].caps) \subseteq
                          CapSet(ra[f].caps) \cup CapSet(rb[f].caps)
             /\ (Populated(rb[f]) /\ ~Populated(ra[f])) => rout[f] = rb[f]
        /\ (ra = StoredRecord /\ rb = FreshRecord) => rout = ReconciledRecord

\* C9 witness: the scenario of the claim, merged
C9_Witness ==
    mpc = "merged" /\ ra = StoredRecord /\ rb = FreshRecord
    /\ rout = ReconciledRecord

-----------------------------------------------------------------------------
(* Claims about the runs of embed_pipeline.main, checked under Spec *)

\* index.json holds a record of id x with a populated audio_path / captions
StoredAudio(file, x) ==
    /\ file.state = "ok"
    /\ \E i \in 1 .. Len(file.records) :
          file.records[i].id = x /\ file.records[i].audio_path
StoredCaptions(file, x) ==
    /\ file.state = "ok"
    /\ \E i \in 1 .. Len(file.records) :
          file.records[i].id = x /\ file.records[i].captions

\* C10: once index.json holds a record X with a populated audio_path (or
\* captions), every later index.json holds a record X whose audio_path (or
\* captions) is populated.
C10_NoRegression ==
    [][\A x \in Ids :
          /\ StoredAudio(index_json, x) => StoredAudio(index_json', x)
          /\ StoredCaptions(index_json, x) => StoredCaptions(index_json', x)
      ]_vars

\* the ids of a list of ids, and the positions of a list of records that hold
\* a record of id x
IdsOf(l) == {l[i] : i \in 1 .. Len(l)}
RecordsOf(recs, x) == {i \in 1 .. Len(recs) : recs[i].id = x}

\* the step that ends a run by writing index.json
StoreWritten == rpc = "items" /\ rpc' = "idle" /\ endedRun' = "written"

\* C13: index.json holds at most one record per id, and its count field is
\* the number of its records.
C13_Deduplicated ==
    index_json.state = "ok" =>
        /\ \A i, j \in 1 .. Len(index_json.records) :
              index_json.records[i].id = index_json.records[j].id => i = j
        /\ index_json.count = Len(index_json.records)

\* C13 witness: a second run crawled one of the ids of the store again and
\* wrote a store of two records, the fresh one and the one only the store had
C13_Witness ==
    /\ rpc = "idle" /\ endedRun = "written" /\ runs = 2
    /\ index_json.state = "ok" /\ index_json.count = 2
    /\ index_json.records[1].extracted_at = 2
    /\ index_json.records[2].extracted_at = 1

\* C14: a run that finds a malformed index.json goes no further: it does not
\* enter the item loop and leaves the file as it is.
C14_AbortsOnMalformed ==
    [][index_json.state = "malformed" =>
          (rpc' = "idle" /\ index_json' = index_json)]_vars

\* C16: an exception raised for one item is caught: the run stays in the item
\* loop and goes on with the next item; the run ends by writing the store only
\* after the last item, the store then holds exactly one record for every
\* crawled id, and the record of every item on which an exception was raised
\* carries error or captions_error.
C16_ItemFailureContained ==
    [][ /\ (rpc = "items" /\ raisedOn' \ raisedOn # {}) =>
              /\ rpc' = "items"
              /\ todo' = Tail(todo)
              /\ Len(records') = Len(records) + 1
        /\ StoreWritten =>
              /\ todo = <<>>
              /\ index_json'.state = "ok"
              /\ \A x \in IdsOf(run_items) :
                    Cardinality(RecordsOf(index_json'.records, x)) = 1
              /\ \A x \in raisedOn :
                    LET r == Lookup(index_json'.records, x)
                    IN r.error \/ r.captions_error
      ]_vars

\* C16 witness: an exception was raised on the first of two items, and the
\* run has gone on to build the record of the second and is about to write
C16_Witness ==
    /\ rpc = "items" /\ todo = <<>>
    /\ Len(run_items) = 2 /\ raisedOn = {run_items[1]}
    /\ Len(records) = 2 /\ records[1].error /\ ~records[2].error

-----------------------------------------------------------------------------
(* Claim about the two crawl entry points, checked under SpecCrawl *)

\* C12: when a run writes the store, every record of the store as it was
\* until then whose id the crawl did not return is in the new store, unchanged.
C12_NeverDeleted ==
    [][StoreWritten =>
          \A i \in 1 .. Len(index_json.records) :
              index_json.records[i].id \notin IdsOf(run_items) =>
                  \E j \in 1 .. Len(index_json'.records) :
                      index_json'.records[j] = index_json.records[i]
      ]_vars

-----------------------------------------------------------------------------
(* Claim about the builds of build_dataset.main, checked under SpecDataset *)

\* unified.json holds a record of id x with a transcript
HasTranscript(file, x) ==
    /\ file.state = "ok"
    /\ \E i \in 1 .. Len(file.records) :
          file.records[i].id = x /\ file.records[i].transcript

\* C11: once unified.json holds a transcript for record x, and
\* transcripts/<x>.json exists, every later unified.json holds a transcript
\* for x.
C11_TranscriptKept ==
    [][\A x \in Ids :
          (HasTranscript(unified_json, x) /\ x \in transcripts) =>
              HasTranscript(unified_json', x)
      ]_vars

-----------------------------------------------------------------------------
(* Claims about the index builds, checked under SpecIndex *)

\* the step that ends a build by writing metadata.json
IndexWritten == ipc = "meta" /\ ipc' = "idle" /\ endedBuild' = "written"

\* C17: a build that is past its batch loop holds one vector and one meta
\* entry per id; when it has written both files, the matrix has as many rows
\* as ids, meta and count say, row i is the embedding of the text of the
\* record (of the records the build loaded) whose id is ids[i], and meta[i]
\* is about ids[i].
C17_Aligned ==
    [][ /\ ipc \in {"save", "meta"} =>
              /\ Len(vectors) = Len(ids)
              /\ Len(meta) = Len(ids)
        /\ IndexWritten =>
              /\ embeddings_npy'.state = "ok" /\ metadata_json'.state = "ok"
              /\ Len(embeddings_npy'.rows) = Len(metadata_json'.ids)
              /\ Len(metadata_json'.meta) = Len(metadata_json'.ids)
              /\ metadata_json'.count = Len(metadata_json'.ids)
              /\ \A i \in 1 .. Len(metadata_json'.ids) :
                    /\ HasId(irecords, metadata_json'.ids[i])
                    /\ embeddings_npy'.rows[i] =
                          Embed(Lookup(irecords, metadata_json'.ids[i]).text)
                    /\ metadata_json'.meta[i].id = metadata_json'.ids[i]
      ]_vars

\* C17 witness: a build embedded two records of different texts in two
\* batches and wrote the index
C17_Witness ==
    /\ ipc = "idle" /\ endedBuild = "written" /\ batches = 2
    /\ Len(metadata_json.ids) = 2 /\ Len(embeddings_npy.rows) = 2
    /\ embeddings_npy.rows[1] # embeddings_npy.rows[2]

\* C18: when the provider raises on a batch the build is over, and neither
\* embeddings.npy nor metadata.json is touched from then on by that build.
C18_NothingPersistedOnRaise ==
    [][ /\ raisedIn' =>
              /\ ipc' = "idle"
              /\ embeddings_npy' = embeddings_npy
              /\ metadata_json' = metadata_json
        /\ (ipc = "embed" /\ ipc' = "idle") =>
              (raisedIn' /\ endedBuild' = "raised")
      ]_vars

\* C18 witness: in a second build the provider answered one batch and raised
\* on the next, and the index of the first build is still in place
C18_Witness ==
    /\ raisedIn /\ ipc = "idle" /\ ibuilds = 2 /\ batches = 1
    /\ embeddings_npy.state = "ok" /\ metadata_json.state = "ok"
    /\ Len(embeddings_npy.rows) = 1 /\ Len(metadata_json.ids) = 1

\* C19: whenever both files exist, the matrix has as many rows as the
\* metadata has ids.
C19_PersistedAsOneUnit ==
    (embeddings_npy.state = "ok" /\ metadata_json.state = "ok") =>
        Len(embeddings_npy.rows) = Len(metadata_json.ids)

-----------------------------------------------------------------------------
(* Claim about the answer service, checked under SpecAnswer *)

\* C20: a request in rag mode that gets as far as the retrieval is answered
\* with min(k, N) sources when k > 0 and with N sources when k = 0, N being
\* the number of rows of the matrix.
C20_ResultCount ==
    a_result.kind \in {"ok", "crash"} =>
        /\ a_result.kind = "ok"
        /\ Len(a_result.sources) =
              IF a_result.asked > 0 /\ a_result.asked < a_result.rows
              THEN a_result.asked ELSE a_result.rows

-----------------------------------------------------------------------------
(* Further claims about fetch_creator_items, checked under SpecWalk *)

\* C25: the list items is in non-increasing order of createTime.
C25_TimeOrdered ==
    \A i, j \in 1 .. Len(items) :
        i < j => items[i].createTime >= items[j].createTime

\* C26: from one page fetch to the next the cursor strictly decreases.
C26_CursorDecreases ==
    [][(wpc = "loop" /\ wpc' = "loop") => cursor' < cursor]_vars

\* C27: no page is fetched with a cursor below the floor.
C27_NoFetchBelowFloor == wpc = "loop" => ~BelowFloor(cursor)

-----------------------------------------------------------------------------
(* Claims about the order of the written record lists, checked under SpecSort *)

\* the integer a record's timestamp stands for, -1 when it has none or holds
\* no integer
StampOrMinusOne(rec) ==
    IF rec["timestamp"].tag = "int" THEN rec["timestamp"].num ELSE -1

\* the record has a timestamp that is an integer
HasStamp(rec) == rec["timestamp"].tag = "int"

\* lst holds the records of src, each as often as src does
SameRecords(lst, src) ==
    /\ Len(lst) = Len(src)
    /\ \A r \in {src[i] : i \in 1 .. Len(src)} :
          Cardinality({i \in 1 .. Len(lst) : lst[i] = r})
              = Cardinality({i \in 1 .. Len(src) : src[i] = r})

\* the order the claim describes
InStampOrder(lst) ==
    /\ \A i, j \in 1 .. Len(lst) :
          i < j => StampOrMinusOne(lst[i]) >= StampOrMinusOne(lst[j])
    /\ \A i, j \in 1 .. Len(lst) :
          (~HasStamp(lst[i]) /\ HasStamp(lst[j])) => j < i

\* C24: the list build_dataset writes and the list export_rag writes hold the
\* records in non-increasing order of timestamp, a missing or non-integer
\* timestamp counting as -1, and the records without such a timestamp behind
\* every record with one.
C24_OutputOrdering ==
    /\ opc \in {"sort", "export"} =>
          InStampOrder(sorted_records) /\ SameRecords(sorted_records, by_id)
    /\ opc = "export" =>
          InStampOrder(export_records)
              /\ SameRecords(export_records, sorted_records)

\* C24 witness: three records came in with no timestamp, timestamp 0 and
\* timestamp 2, in this order, and went out as 2, 0, none
C24_Witness ==
    /\ opc = "export" /\ Len(records_in) = 3
    /\ ~HasStamp(records_in[1])
    /\ records_in[2]["timestamp"] = IntVal(0)
    /\ records_in[3]["timestamp"] = IntVal(2)
    /\ export_records = <<records_in[3], records_in[2], records_in[1]>>

-----------------------------------------------------------------------------
(* Claim about the deduplication, checked under SpecDedup *)

\* the records of lst whose id is vid, in the order of lst
RECURSIVE Occurrences(_, _, _)
Occurrences(lst, vid, i) ==
    IF i > Len(lst) THEN <<>>
    ELSE (IF lst[i]["id"] = vid THEN <<lst[i]>> ELSE <<>>)
             \o Occurrences(lst, vid, i + 1)

\* merge_records folded from the left over occ, its first record as primary
RECURSIVE FoldMerge(_, _, _)
FoldMerge(occ, i, acc) ==
    IF i > Len(occ) THEN acc
    ELSE FoldMerge(occ, i + 1, merge_records(acc, occ[i]))

\* the non-empty ids of lst
VidsOf(lst) ==
    {lst[i]["id"] : i \in {j \in 1 .. Len(lst) : Populated(lst[j]["id"])}}

\* C28: the deduplicated list holds exactly one record for every non-empty id
\* of the input and none without an id, and the record of an id is the left
\* fold of merge_records over the input records of that id, in input order.
C28_DedupIsLeftFold ==
    opc \in {"sort", "export"} =>
        /\ VidsOf(sorted_records) = VidsOf(records_in)
        /\ Len(sorted_records) = Cardinality(VidsOf(records_in))
        /\ \A i \in 1 .. Len(sorted_records) :
              LET occ == Occurrences(records_in, sorted_records[i]["id"], 1)
              IN /\ Populated(sorted_records[i]["id"])
                 /\ sorted_records[i] = FoldMerge(occ, 2, occ[1])

\* C28 witness: id "1" came in three times, first without a title, then with
\* two different titles, the last one with a timestamp; one record of id "1"
\* went out, with the title of the second sighting and that timestamp
C28_Witness ==
    /\ opc = "sort" /\ Len(records_in) = 3
    /\ \A i \in 1 .. 3 : records_in[i]["id"] = Str("1")
    /\ records_in[1]["title"] = Absent
    /\ records_in[2]["title"] = Str("Old Title")
    /\ records_in[3]["title"] = Str("New Title")
    /\ records_in[3]["timestamp"] = IntVal(2)
    /\ Len(sorted_records) = 1
    /\ sorted_records[1]["title"] = Str("Old Title")
    /\ sorted_records[1]["timestamp"] = IntVal(2)

-----------------------------------------------------------------------------
(* Claims about the retrieval of the answer service, checked under          *)
(* SpecRetrieve                                                            *)

\* the request got as far as ranking the rows
Ranked == a_result.kind \in {"ok", "api_error"}

\* the scores of the rows for the query of the last request
LastSims == Sims(embeddings_npy.rows, a_result.q_vec)

\* C21: the rows picked come in descending order of score, rows of equal score
\* in ascending order of row number, and no row left out scores higher than
\* a row picked.
C21_RankedStable ==
    Ranked =>
        LET top == a_result.top_idx IN
        /\ \A i, j \in 1 .. Len(top) :
              i < j =>
                 /\ ~Greater(LastSims[top[j]], LastSims[top[i]])
                 /\ ~Greater(LastSims[top[i]], LastSims[top[j]]) =>
                       top[i] < top[j]
        /\ \A r \in 1 .. Len(LastSims) :
              (\A i \in 1 .. Len(top) : top[i] # r) =>
                  \A i \in 1 .. Len(top) :
                      ~Greater(LastSims[r], LastSims[top[i]])

\* C22: when the query vector and the rows of the matrix differ in length the
\* request ends in the exception of the matrix product: no row is ranked and
\* no source is returned.
C22_DimensionMismatchFails ==
    (/\ a_result.kind \in {"ok", "api_error", "crash"}
     /\ a_result.raised # "provider"
     /\ embeddings_npy.rows # <<>>
     /\ Len(a_result.q_vec) # Len(embeddings_npy.rows[1])) =>
        /\ a_result.kind = "crash"
        /\ a_result.raised = "ValueError"
        /\ a_result.top_idx = <<>>
        /\ a_result.sources = <<>>

\* C22 witness: a query vector longer than the rows of a matrix of two rows
\* ended the request in ValueError
C22_Witness ==
    /\ a_result.kind = "crash" /\ a_result.raised = "ValueError"
    /\ Len(embeddings_npy.rows) = 2
    /\ Len(a_result.q_vec) > Len(embeddings_npy.rows[1])

\* one of the two index files is absent
IndexAbsent ==
    metadata_json.state = "missing" \/ embeddings_npy.state = "missing"

\* C23 as stated: whenever one of the two index files is absent the request is
\* answered with the index-missing error, before any provider call.
C23_IndexMissingAsStated ==
    (a_result.kind # "none" /\ IndexAbsent) =>
        (a_result.kind = "index_missing" /\ a_result.calls = 0)

\* C23 amended: when unified.json can be loaded and one of the two index files
\* is absent, the request is answered with the index-missing error, before
\* any provider call; when unified.json cannot be loaded the request is
\* answered with the dataset error, before any provider call, whatever the
\* index files are; and the index-missing error is given in no other case.
C23_IndexMissing ==
    a_result.kind # "none" =>
        /\ (unified_json.state = "ok" /\ IndexAbsent) =>
              (a_result.kind = "index_missing" /\ a_result.calls = 0)
        /\ unified_json.state # "ok" =>
              (a_result.kind = "no_dataset" /\ a_result.calls = 0)
        /\ a_result.kind = "index_missing" =>
              (unified_json.state = "ok" /\ IndexAbsent)

\* C23 witness: embeddings.npy was written and metadata.json was not, and the
\* request was answered with the index-missing error
C23_Witness ==
    /\ a_result.kind = "index_missing" /\ a_result.calls = 0
    /\ embeddings_npy.state = "ok" /\ metadata_json.state = "missing"
    /\ unified_json.state = "ok"

-----------------------------------------------------------------------------
(* Claims about the item loop and the writes of the crawl entry points      *)

\* index.json holds a record of vid whose audio_path is populated
StoredWithAudio(vid) ==
    /\ index_json.state = "ok"
    /\ HasId(index_json.records, vid)
    /\ Lookup(index_json.records, vid).audio_path

\* C29: when a run writes the store, every item of its crawl that had a stored
\* record with a populated audio_path while the skip flag was set is in the new
\* store with the stored record unchanged, and no embed fetch, audio
\* extraction or caption download was issued for it; for every other item of
\* the crawl the extraction was issued.
C29_SkipExisting ==
    [][(rpc = "items" /\ rpc' = "idle" /\ index_json'.state = "ok") =>
          \A i \in 1 .. Len(run_items) :
             LET vid == run_items[i] IN
             IF skip_existing /\ StoredWithAudio(vid)
             THEN /\ vid \notin issued
                  /\ HasId(index_json'.records, vid)
                  /\ Lookup(index_json'.records, vid)
                        = Lookup(index_json.records, vid)
             ELSE vid \in issued]_vars

\* C29 witness: a run with the skip flag set has taken every item of a crawl
\* of two stored items; the one whose stored record has an audio_path was
\* skipped and the one whose stored record has none was extracted again
C29_Witness ==
    /\ rpc = "items" /\ todo = <<>> /\ skip_existing
    /\ \E i, j \in 1 .. Len(run_items) :
          /\ StoredWithAudio(run_items[i])
          /\ run_items[i] \notin issued
          /\ HasId(index_json.records, run_items[j])
          /\ ~Lookup(index_json.records, run_items[j]).audio_path
          /\ run_items[j] \in issued

\* C30: a run whose crawl fails leaves index.json and videos.jsonl as they
\* were, and the two files change only in the step that ends the item loop
\* after every item was taken.
C30_FailedCrawlLeavesStore ==
    [][/\ (rpc = "idle" /\ runs' = runs + 1 /\ endedRun' = "crawl_failed") =>
             (index_json' = index_json /\ videos_jsonl' = videos_jsonl)
       /\ (index_json' # index_json \/ videos_jsonl' # videos_jsonl) =>
             (rpc = "items" /\ todo = <<>> /\ rpc' = "idle")]_vars

\* C30 witness: the crawl of a run failed on a profile directory whose store
\* a previous run had written, and the store is there
C30_Witness ==
    /\ endedRun = "crawl_failed" /\ runs = 2 /\ rpc = "idle"
    /\ index_json.state = "ok" /\ Len(index_json.records) > 0
    /\ videos_jsonl = index_json.records

====
